---- MODULE Spec2Model ----
(***************************************************************************)
(* Model of src/scraper.py: PaperCollector.run, i.e. the pipeline          *)
(* fetch_arxiv -> summarize -> save_results, run as successive processes   *)
(* that share only the filesystem.                                         *)
(*                                                                         *)
(* A text (a Python str) is a sequence of tokens; a token is either a      *)
(* whitespace character or a chunk of non-whitespace characters.           *)
(***************************************************************************)
EXTENDS Naturals, Sequences, FiniteSets, TLC

VARIABLES
    pc,              \* position of the current process inside run()
    run,             \* which invocation of the script this process is
    clock,           \* the operating system's UTC day (index into Days)
    openai_api_key,  \* self.openai_api_key, read from the environment by __init__
    response_text,   \* fetch_arxiv's listing response, kept while run is at the fetch stage
    papers,          \* run's local `papers`
    summarized,      \* summarize's local `summarized`
    date_str,        \* save_results' local `date_str`
    console,         \* stage-level messages printed by this process
    files,           \* the filesystem: path -> content
    fetched,         \* history: the list fetch_arxiv returned
    origin,          \* history: the feed entries that fetch_arxiv turned into Papers
    requests,        \* history: the summarization requests issued and how each ended
    files_at_start   \* history: the filesystem when this process started

vars == <<pc, run, clock, openai_api_key, response_text, papers, summarized,
          date_str, console, files, fetched, origin, requests, files_at_start>>

----------------------------------------------------------------------------
(* Bounds *)

\* longest feed considered
MaxEntries == 2

----------------------------------------------------------------------------
(* Python str operations *)

Whitespace == {" ", "\n", "\t"}

IsSpace(c) == c \in Whitespace

RECURSIVE LStrip(_)
LStrip(s) ==
    IF s # <<>> /\ IsSpace(Head(s)) THEN LStrip(Tail(s)) ELSE s

RECURSIVE RStrip(_)
RStrip(s) ==
    IF s # <<>> /\ IsSpace(s[Len(s)]) THEN RStrip(SubSeq(s, 1, Len(s) - 1)) ELSE s

\* str.strip() with no argument
Strip(s) == RStrip(LStrip(s))

\* str.split() with no argument: the maximal runs of non-whitespace, in order
RECURSIVE SplitFrom(_, _, _)
SplitFrom(s, word, acc) ==
    IF s = <<>> THEN (IF word = <<>> THEN acc ELSE Append(acc, word))
    ELSE IF IsSpace(Head(s))
         THEN SplitFrom(Tail(s), <<>>, IF word = <<>> THEN acc ELSE Append(acc, word))
         ELSE SplitFrom(Tail(s), Append(word, Head(s)), acc)

Split(s) == SplitFrom(s, <<>>, <<>>)

\* sep.join(words)
RECURSIVE Join(_, _)
Join(sep, words) ==
    IF words = <<>> THEN <<>>
    ELSE IF Len(words) = 1 THEN words[1]
    ELSE words[1] \o sep \o Join(sep, Tail(words))

\* Python truthiness of a str
Truthy(s) == s # <<>>

\* dict.get(key, default)
Get(d, key, default) == IF key \in DOMAIN d THEN d[key] ELSE default

----------------------------------------------------------------------------
(* The feed: entries are maps from the child elements they have to text *)

\* entry.findtext(tag, default="")
FindText(entry, tag) == IF tag \in DOMAIN entry THEN entry[tag] ELSE <<>>

SampleEntries ==
    { [title |-> <<" ", "Foo", " ", " ", "Bar", "\n">>,
       summary |-> <<"We", " ", "\n", "study", " ">>,
       id |-> <<"http://arxiv.org/abs/1111.1111">>,
       published |-> <<"2024-05-01T00:00:00Z">>],
      [title |-> <<"Baz">>,
       summary |-> <<"Short">>,
       id |-> <<"http://arxiv.org/abs/2222.2222">>],
      [summary |-> <<"No", " ", "title">>,
       id |-> <<"http://arxiv.org/abs/3333.3333">>,
       published |-> <<"2024-05-02T00:00:00Z">>],
      [title |-> <<" ", "\n">>,
       summary |-> <<"Blank", " ", "title">>,
       id |-> <<"http://arxiv.org/abs/4444.4444">>],
      [title |-> <<"No", " ", "abstract">>,
       id |-> <<"http://arxiv.org/abs/5555.5555">>],
      [title |-> <<"No", " ", "id">>,
       summary |-> <<"Abstract">>,
       published |-> <<"2024-05-03T00:00:00Z">>] }

RECURSIVE SeqsUpTo(_, _)
SeqsUpTo(S, n) ==
    IF n = 0 THEN {<<>>}
    ELSE LET shorter == SeqsUpTo(S, n - 1)
         IN shorter \cup {Append(s, x) : s \in shorter, x \in S}

Feeds == SeqsUpTo(SampleEntries, MaxEntries)

\* How the listing request can end: _http_get raises URLError, or it returns
\* a text that is not well-formed XML, or a feed.
NoResponse == [kind |-> "none", entries |-> <<>>]
UnreachableResponse == [kind |-> "URLError", entries |-> <<>>]
GarbageResponse == [kind |-> "garbage", entries |-> <<>>]
FeedResponse(feed) == [kind |-> "feed", entries |-> feed]

----------------------------------------------------------------------------
(* fetch_arxiv *)

SourceLabel == <<"arXiv">>

\* variant: the title is tested before it is stripped
TitleOfUnstripped(entry) == FindText(entry, "title")

TitleOf(entry) == Strip(FindText(entry, "title"))

AbstractOf(entry) == Strip(FindText(entry, "summary"))

\* variant: the abstract is not among the required fields
SkippedIgnoringAbstract(entry) ==
    \/ ~Truthy(TitleOf(entry))
    \/ ~Truthy(FindText(entry, "id"))

\* the loop's `continue` condition
Skipped(entry) ==
    \/ ~Truthy(TitleOf(entry))
    \/ ~Truthy(AbstractOf(entry))
    \/ ~Truthy(FindText(entry, "id"))

MakePaper(entry) ==
    [title |-> Join(<<" ">>, Split(TitleOf(entry))),
     abstract |-> Join(<<" ">>, Split(AbstractOf(entry))),
     url |-> FindText(entry, "id"),
     source |-> SourceLabel,
     published |-> FindText(entry, "published")]

RECURSIVE FetchLoop(_, _)
FetchLoop(entries, acc) ==
    IF entries = <<>> THEN acc
    ELSE IF Skipped(Head(entries)) THEN FetchLoop(Tail(entries), acc)
    ELSE FetchLoop(Tail(entries), Append(acc, MakePaper(Head(entries))))

ParsePapers(entries) == FetchLoop(entries, <<>>)

RECURSIVE KeptLoop(_, _)
KeptLoop(entries, acc) ==
    IF entries = <<>> THEN acc
    ELSE IF Skipped(Head(entries)) THEN KeptLoop(Tail(entries), acc)
    ELSE KeptLoop(Tail(entries), Append(acc, Head(entries)))

----------------------------------------------------------------------------
(* __init__: the credential comes from the environment *)

PyNone == "<None>"

\* os.getenv("OPENAI_API_KEY") over the environments considered: unset, empty, set
Keys == {PyNone, "", "sk-test"}

\* variant: `self.openai_api_key is None`
KeyMissingOnlyNone(key) == key = PyNone

\* `not self.openai_api_key`
KeyMissing(key) == key = PyNone \/ key = ""

----------------------------------------------------------------------------
(* summarize and _call_openai *)

SummaryUnavailable == <<"Summary", " ", "unavailable">>

\* What one POST to the chat-completion endpoint can produce: urlopen raises
\* URLError (transport) or HTTPError (non-2xx), the body does not have the
\* expected shape, or the body carries a content string.
Outcomes ==
    { [kind |-> "URLError", content |-> <<>>],
      [kind |-> "HTTPError", content |-> <<>>],
      [kind |-> "malformed", content |-> <<>>],
      [kind |-> "ok", content |-> <<"\n", "Studies", " ", "X.", " ">>],
      [kind |-> "ok", content |-> <<"Summary", " ", "unavailable">>] }

\* variant: HTTPError is answered with the (empty) text of the error
CallOpenaiHttpErrorText(outcome) ==
    IF outcome.kind \in {"ok", "HTTPError"} THEN Strip(outcome.content) ELSE SummaryUnavailable

\* variant: the returned text is not stripped
CallOpenaiUntrimmed(outcome) ==
    IF outcome.kind = "ok" THEN outcome.content ELSE SummaryUnavailable

\* try: ... return content.strip()  except Exception: return "Summary unavailable"
CallOpenai(outcome) ==
    IF outcome.kind = "ok" THEN Strip(outcome.content) ELSE SummaryUnavailable

\* paper[key] = value
SetItem(paper, key, value) ==
    [k \in DOMAIN paper \cup {key} |-> IF k = key THEN value ELSE paper[k]]

\* what the history keeps of a request: whether it failed, and the text returned
RequestRecord(outcome) ==
    [failed |-> outcome.kind \in {"URLError", "HTTPError", "malformed"},
     content |-> outcome.content]

----------------------------------------------------------------------------
(* save_results *)

Days == <<"2024-05-01", "2024-05-02">>

\* datetime.utcnow().strftime("%Y-%m-%d")
Strftime(day) == Days[day]

JsonPath(date) == <<"summaries/articles_", date, ".json">>
MdPath(date) == <<"summaries/articles_", date, ".md">>

\* dict insertion order of a Paper
KeyOrder == <<"title", "abstract", "url", "source", "published", "ai_summary">>

\* json.dump of one dict: its key/value pairs in insertion order
JsonObject(paper) ==
    LET keys == SelectSeq(KeyOrder, LAMBDA k : k \in DOMAIN paper)
    IN [n \in 1..Len(keys) |-> <<keys[n], paper[keys[n]]>>]

\* variant: the list is dumped last Paper first
JsonDumpReversed(ps) == [n \in 1..Len(ps) |-> JsonObject(ps[Len(ps) + 1 - n])]

\* json.dump(papers, f, indent=2, ensure_ascii=False)
JsonDump(ps) == [n \in 1..Len(ps) |-> JsonObject(ps[n])]

\* the seven f.write calls of the loop body
MdSection(paper) ==
    << <<"## ">> \o paper.title \o <<"\n">>,
       <<"- **Source:** ">> \o paper.source \o <<"\n">>,
       <<"- **Published:** ">> \o Get(paper, "published", <<"unknown">>) \o <<"\n">>,
       <<"- **URL:** ">> \o paper.url \o <<"\n\n">>,
       <<"**Abstract**\n">> \o paper.abstract \o <<"\n\n">>,
       <<"**AI Summary**\n">> \o Get(paper, "ai_summary", <<"Not available">>) \o <<"\n\n">>,
       <<"---\n\n">> >>

MdHeader(date) ==
    << <<"# Daily HCI/CMC Paper Brief - ", date, " (UTC)\n\n">>,
       <<"Topics: attention, cognitive offloading, generative AI, virtual reality, ",
         "advertising communication.\n\n">> >>

RECURSIVE MdSections(_)
MdSections(ps) ==
    IF ps = <<>> THEN <<>> ELSE MdSection(Head(ps)) \o MdSections(Tail(ps))

\* the Markdown file: the sequence of chunks written to it
MdRender(ps, date) == MdHeader(date) \o MdSections(ps)

\* variant: open(path, "a")
WriteFileAppend(fs, path, content) ==
    [p \in DOMAIN fs \cup {path} |->
        IF p = path THEN (IF path \in DOMAIN fs THEN fs[path] \o content ELSE content)
        ELSE fs[p]]

\* open(path, "w") ... write ... close
WriteFile(fs, path, content) ==
    [p \in DOMAIN fs \cup {path} |-> IF p = path THEN content ELSE fs[p]]

----------------------------------------------------------------------------
(* run *)

\* variant: the empty list is not tested
NoPapersCollectedNever(ps) == FALSE

\* `not papers`
NoPapersCollected(ps) == ps = <<>>

Init ==
    /\ pc = "start"
    /\ run = "first"
    /\ clock = 1
    /\ openai_api_key \in Keys
    /\ response_text = NoResponse
    /\ papers = <<>>
    /\ summarized = <<>>
    /\ date_str = ""
    /\ console = <<>>
    /\ files = <<>>
    /\ fetched = <<>>
    /\ origin = <<>>
    /\ requests = <<>>
    /\ files_at_start = <<>>

\* run: fetch_arxiv's request raises URLError, which run catches
FetchUnreachable ==
    /\ pc = "start"
    /\ pc' = "returned"
    /\ response_text' = UnreachableResponse
    /\ console' = console \o <<"collecting", "fetch_failed">>
    /\ UNCHANGED <<run, clock, openai_api_key, papers, summarized,
                   date_str, files, fetched, origin, requests, files_at_start>>

\* run: the response is not well-formed XML; ElementTree.fromstring raises
\* ParseError, which is no URLError and leaves run
FetchGarbage ==
    /\ pc = "start"
    /\ pc' = "crashed"
    /\ response_text' = GarbageResponse
    /\ console' = console \o <<"collecting">>
    /\ UNCHANGED <<run, clock, openai_api_key, papers, summarized,
                   date_str, files, fetched, origin, requests, files_at_start>>

\* run: fetch_arxiv returns the Papers of a feed that parses, and run returns
\* at once when there are none
FetchArxiv ==
    /\ pc = "start"
    /\ \E feed \in Feeds :
         /\ response_text' = FeedResponse(feed)
         /\ papers' = ParsePapers(feed)
         /\ fetched' = ParsePapers(feed)
         /\ origin' = KeptLoop(feed, <<>>)
         /\ IF NoPapersCollected(ParsePapers(feed))
            THEN /\ pc' = "returned"
                 /\ console' = console \o <<"collecting", "found", "no_papers">>
            ELSE /\ pc' = "fetched"
                 /\ console' = console \o <<"collecting", "found">>
    /\ UNCHANGED <<run, clock, openai_api_key, summarized,
                   date_str, files, requests, files_at_start>>

\* summarize: no credential, the list is returned as it is
SummarizeSkipped ==
    /\ pc = "fetched"
    /\ KeyMissing(openai_api_key)
    /\ pc' = "save"
    /\ response_text' = NoResponse
    /\ console' = Append(console, "key_not_set")
    /\ UNCHANGED <<run, clock, openai_api_key, papers, summarized,
                   date_str, files, fetched, origin, requests, files_at_start>>

\* summarize: a credential is set; `summarized = []`, and an empty list is
\* returned at once
SummarizeBegin ==
    /\ pc = "fetched"
    /\ ~KeyMissing(openai_api_key)
    /\ response_text' = NoResponse
    /\ summarized' = <<>>
    /\ IF papers = <<>> THEN pc' = "save" ELSE pc' = "summarize"
    /\ UNCHANGED <<run, clock, openai_api_key, papers,
                   date_str, console, files, fetched, origin, requests, files_at_start>>

\* summarize: one iteration of the loop; after the last one summarize returns
\* `summarized` and run binds it to `papers`
SummarizeOne ==
    /\ pc = "summarize"
    /\ \E outcome \in Outcomes :
         LET n == Len(summarized) + 1
             paper == SetItem(papers[n], "ai_summary", CallOpenai(outcome))
             done == Append(summarized, paper)
         IN /\ summarized' = done
            /\ requests' = Append(requests, RequestRecord(outcome))
            /\ IF n = Len(papers)
               THEN papers' = done /\ pc' = "save"
               ELSE papers' = [papers EXCEPT ![n] = paper] /\ pc' = "summarize"
    /\ UNCHANGED <<run, clock, openai_api_key, response_text,
                   date_str, console, files, fetched, origin, files_at_start>>

\* save_results, then run's last print
SaveResults ==
    /\ pc = "save"
    /\ LET date == Strftime(clock)
       IN /\ date_str' = date
          /\ files' = WriteFile(WriteFile(files, JsonPath(date), JsonDump(papers)),
                                MdPath(date), MdRender(papers, date))
    /\ pc' = "returned"
    /\ console' = console \o <<"saved", "generated">>
    /\ UNCHANGED <<run, clock, openai_api_key, response_text, papers, summarized,
                   fetched, origin, requests, files_at_start>>

\* the script is started a second time: a new process and a new PaperCollector
NextRun ==
    /\ pc \in {"returned", "crashed"}
    /\ run = "first"
    /\ run' = "second"
    /\ pc' = "start"
    /\ openai_api_key' \in Keys
    /\ response_text' = NoResponse
    /\ papers' = <<>>
    /\ summarized' = <<>>
    /\ date_str' = ""
    /\ console' = <<>>
    /\ fetched' = <<>>
    /\ origin' = <<>>
    /\ requests' = <<>>
    /\ files_at_start' = files
    /\ UNCHANGED <<clock, files>>

\* midnight UTC passes
Tick ==
    /\ clock < Len(Days)
    /\ clock' = clock + 1
    /\ UNCHANGED <<pc, run, openai_api_key, response_text, papers, summarized,
                   date_str, console, files, fetched, origin, requests, files_at_start>>

Next ==
    \/ FetchUnreachable
    \/ FetchGarbage
    \/ FetchArxiv
    \/ SummarizeSkipped
    \/ SummarizeBegin
    \/ SummarizeOne
    \/ SaveResults
    \/ NextRun
    \/ Tick

Spec == Init /\ [][Next]_vars

----------------------------------------------------------------------------
(* Vocabulary of the properties *)

\* the element is there and its text is more than whitespace
HasText(entry, tag) ==
    tag \in DOMAIN entry /\ \E n \in 1..Len(entry[tag]) : entry[tag][n] \notin Whitespace

\* an entry with a title, an abstract and an identifier
WellFormed(entry) ==
    HasText(entry, "title") /\ HasText(entry, "summary") /\ FindText(entry, "id") # <<>>

CredentialAbsent == openai_api_key \in {PyNone, ""}

\* this process has been through save_results
Saved == pc = "returned" /\ date_str # ""

ListingFailed == response_text.kind \in {"URLError", "garbage"}

Reported == \E n \in 1..Len(console) : console[n] = "fetch_failed"

AllRequestsFailed == \A n \in 1..Len(requests) : requests[n].failed

\* value of a key in a dumped JSON object, the empty text when the key is missing
JsonField(object, key) ==
    LET at == {n \in 1..Len(object) : object[n][1] = key}
    IN IF at = {} THEN <<>> ELSE object[CHOOSE n \in at : TRUE][2]

\* a dumped JSON object without its ai_summary member
WithoutSummary(object) == SelectSeq(object, LAMBDA member : member[1] # "ai_summary")

\* f.write calls before the loop, and in each iteration of it
HeaderChunks == 2
SectionChunks == 7

\* the n-th chunk of the k-th section of a Markdown file
MdChunk(content, k, n) == content[HeaderChunks + SectionChunks * (k - 1) + n]

----------------------------------------------------------------------------
(* C1: for every feed that parses, fetch_arxiv returns exactly one Paper per *)
(* entry that has a title, an abstract and an identifier, in the feed's      *)
(* order, each with a non-empty title and url; every other entry lowers the  *)
(* count by one, and the process does not crash.                             *)
C1_OnePaperPerWellFormedEntry ==
    response_text.kind = "feed" =>
        LET entries == response_text.entries
            good == SelectSeq(entries, WellFormed)
            bad == {n \in 1..Len(entries) : ~WellFormed(entries[n])}
        IN /\ pc # "crashed"
           /\ Len(papers) = Len(good)
           /\ Len(papers) = Len(entries) - Cardinality(bad)
           /\ \A n \in 1..Len(papers) :
                /\ papers[n].url = good[n]["id"]
                /\ papers[n].title # <<>>
                /\ papers[n].url # <<>>

C1_Witness ==
    /\ pc = "fetched"
    /\ response_text.kind = "feed"
    /\ Len(response_text.entries) = MaxEntries
    /\ ~WellFormed(response_text.entries[1])
    /\ WellFormed(response_text.entries[MaxEntries])
    /\ Len(papers) = MaxEntries - 1

(* C2: without a credential summarize returns the same Papers, in the same  *)
(* order, with every field unchanged and no ai_summary, and no              *)
(* summarization request is issued.                                         *)
C2_NoCredentialPassThrough ==
    CredentialAbsent =>
        /\ requests = <<>>
        /\ pc \in {"save", "returned"} => papers = fetched
        /\ \A n \in 1..Len(papers) : "ai_summary" \notin DOMAIN papers[n]

C2_Witness ==
    /\ CredentialAbsent
    /\ pc = "save"
    /\ Len(papers) = MaxEntries
    /\ papers[1] # papers[MaxEntries]

(* C3: with a credential and a non-empty collection, if every summarization *)
(* request fails, every Paper gets ai_summary "Summary unavailable", the    *)
(* process does not crash, and the run ends having written both files.      *)
C3_AllFailuresStillSave ==
    (~CredentialAbsent /\ fetched # <<>> /\ AllRequestsFailed) =>
        /\ pc # "crashed"
        /\ \A n \in 1..Len(requests) : papers[n].ai_summary = SummaryUnavailable
        /\ pc \in {"save", "returned"} =>
             /\ Len(requests) = Len(fetched)
             /\ Len(papers) = Len(fetched)
        /\ pc = "returned" =>
             /\ Saved
             /\ JsonPath(date_str) \in DOMAIN files
             /\ MdPath(date_str) \in DOMAIN files
             /\ Len(files[JsonPath(date_str)]) = Len(fetched)
             /\ \A n \in 1..Len(fetched) :
                  JsonField(files[JsonPath(date_str)][n], "ai_summary") = SummaryUnavailable

C3_Witness ==
    /\ ~CredentialAbsent
    /\ Len(fetched) = MaxEntries
    /\ Len(requests) = MaxEntries
    /\ AllRequestsFailed
    /\ Saved

C5_ListingFailureReported ==
    ListingFailed =>
        /\ pc = "returned"
        /\ Reported
        /\ requests = <<>>
        /\ files = files_at_start

(* C6: in every run that writes output, the Papers of the JSON file and the *)
(* sections of the Markdown file are exactly the sequence fetch_arxiv       *)
(* emitted: nothing reordered, dropped, duplicated or merged.               *)
C6_OutputOrderIsFetchOrder ==
    Saved =>
        LET json == files[JsonPath(date_str)]
            md == files[MdPath(date_str)]
        IN /\ Len(json) = Len(fetched)
           /\ Len(md) = HeaderChunks + SectionChunks * Len(fetched)
           /\ \A n \in 1..Len(fetched) :
                /\ WithoutSummary(json[n]) = JsonObject(fetched[n])
                /\ MdChunk(md, n, 1) = <<"## ">> \o fetched[n].title \o <<"\n">>
                /\ MdChunk(md, n, 4) = <<"- **URL:** ">> \o fetched[n].url \o <<"\n\n">>
                /\ MdChunk(md, n, 5) = <<"**Abstract**\n">> \o fetched[n].abstract \o <<"\n\n">>

C6_Witness ==
    /\ Saved
    /\ Len(fetched) = MaxEntries
    /\ fetched[1] # fetched[MaxEntries]
    /\ requests # <<>>
    /\ requests[1].failed

(* C7: every Paper in a written JSON file has a non-empty title, a          *)
(* non-empty abstract and a non-empty url.                                  *)
C7_WrittenPapersHaveRequiredFields ==
    \A path \in DOMAIN files :
        path[3] = ".json" =>
            \A n \in 1..Len(files[path]) :
                /\ JsonField(files[path][n], "title") # <<>>
                /\ JsonField(files[path][n], "abstract") # <<>>
                /\ JsonField(files[path][n], "url") # <<>>

C7_Witness ==
    /\ Saved
    /\ Len(files[JsonPath(date_str)]) = MaxEntries
    /\ requests # <<>>

(* C8: a run that writes replaces the dated files: afterwards the JSON file *)
(* holds exactly this run's collection and nothing of an earlier run's, so  *)
(* a second run with the same collection leaves the content of a single run.*)
C8_RerunOverwrites ==
    Saved =>
        /\ DOMAIN files = DOMAIN files_at_start \cup {JsonPath(date_str), MdPath(date_str)}
        /\ files[JsonPath(date_str)] = JsonDump(papers)
        /\ files[MdPath(date_str)] = MdRender(papers, date_str)
        /\ \A path \in DOMAIN files_at_start :
             path \notin {JsonPath(date_str), MdPath(date_str)} =>
                 files[path] = files_at_start[path]
        /\ (/\ JsonPath(date_str) \in DOMAIN files_at_start
            /\ files_at_start[JsonPath(date_str)] = JsonDump(papers))
              => files[JsonPath(date_str)] = files_at_start[JsonPath(date_str)]

C8_Witness ==
    /\ Saved
    /\ run = "second"
    /\ JsonPath(date_str) \in DOMAIN files_at_start
    /\ files_at_start[JsonPath(date_str)] # <<>>
    /\ files_at_start[JsonPath(date_str)] # files[JsonPath(date_str)]

(* C9: the Published line of every Markdown section shows the date the      *)
(* source supplied, and "unknown" when the entry supplied none.             *)
C9_PublishedOrUnknown ==
    Saved =>
        \A n \in 1..Len(origin) :
            MdChunk(files[MdPath(date_str)], n, 3) =
                <<"- **Published:** ">>
                \o (IF "published" \in DOMAIN origin[n]
                    THEN origin[n]["published"] ELSE <<"unknown">>)
                \o <<"\n">>

(* C10: when the listing fetch succeeds but yields no Paper, run ends with  *)
(* no summarization request and no file created or overwritten: the files   *)
(* of an earlier run are left as they were.                                 *)
C10_NoPapersNoOutput ==
    (response_text.kind = "feed" /\ SelectSeq(response_text.entries, WellFormed) = <<>>) =>
        /\ pc = "returned"
        /\ ~Saved
        /\ requests = <<>>
        /\ files = files_at_start

C10_Witness ==
    /\ run = "second"
    /\ pc = "returned"
    /\ response_text.kind = "feed"
    /\ response_text.entries # <<>>
    /\ papers = <<>>
    /\ JsonPath(Strftime(clock)) \in DOMAIN files

====
